---- MODULE Spec2Model ----
(***************************************************************************)
(* Model of the search engine of combineList.py: class SolutionFinder and  *)
(* the module-level catalog `products`.                                    *)
(*                                                                         *)
(* Prices and totals are exact decimals in the program (decimal.Decimal);  *)
(* they are modelled as integers counted in the smallest currency unit,    *)
(* which is exact for addition, multiplication, comparison and for the     *)
(* truncating integer division Decimal.__floordiv__.                       *)
(* Item indices are 0-based as in the program: the catalog, a quantity     *)
(* vector and the constraint table are functions on 0..N-1.  The stack is  *)
(* a sequence whose LAST element is the top (deque.append / deque.pop).    *)
(***************************************************************************)
EXTENDS Integers, Sequences, FiniteSets, TLC

VARIABLES
    products,         \* global `products`: index -> unit price
    min_total,        \* SolutionFinder.min_total
    max_total,        \* SolutionFinder.max_total
    constraints,      \* SolutionFinder.constraints: index -> [min, max]
    found_solutions,  \* SolutionFinder.found_solutions
    stack,            \* SolutionFinder.stack
    pc,               \* position of the caller / of find_next_solution
    result,           \* what the last find_next_solution call returned
    returned,         \* history: quantity vectors returned with found=True
    sessionStart,     \* history: Len(returned) at the last initialize_search
    exhausted,        \* history: found=False was returned in this session
    inits,            \* history: number of initialize_search calls
    changed           \* history: constraints changed since initialize_search

vars == <<products, min_total, max_total, constraints, found_solutions,
          stack, pc, result, returned, sessionStart, exhausted, inits,
          changed>>

----------------------------------------------------------------------------
(* Bounds of the explored inputs *)

MaxPrice == 2
MaxTotal == 3
MaxQty == 2
MaxInits == 2

Prices == 0..MaxPrice
Totals == 0..MaxTotal
MinBounds == (0 - 1)..MaxQty
MaxBounds == 0..MaxQty

Catalogs == UNION {[0..(n - 1) -> Prices] : n \in 0..2}

\* the catalog and interval of the worked example: one item at 24.12,
\* interval [24.12, 48.24], in hundredths
ExampleCatalog == (0 :> 2412)
ExampleInterval == <<2412, 4824>>

N == Cardinality(DOMAIN products)
Items == 0..(N - 1)

ConstraintRecords == [min : MinBounds, max : MaxBounds]
ConstraintDicts == UNION {[S -> ConstraintRecords] : S \in SUBSET Items}

----------------------------------------------------------------------------
(* Pure helpers *)

\* Decimal.__floordiv__ : the integer part of the quotient, truncated
\* toward zero (b > 0)
TruncDiv(a, b) == IF a >= 0 THEN a \div b ELSE 0 - ((0 - a) \div b)

RECURSIVE SumTo(_, _)
\* sum(q[i] * products[i]["price"] for i in range(n))
SumTo(q, n) == IF n = 0 THEN 0
               ELSE SumTo(q, n - 1) + q[n - 1] * products[n - 1]

WeightedSum(q) == SumTo(q, N)

\* fault: the choices iterated upward, range(lo, hi + 1)
AscRange(hi, lo) == [k \in 1..(hi - lo + 1) |-> lo + k - 1]

\* range(hi, lo - 1, -1) as a sequence: hi, hi-1, ..., lo
DescRange(hi, lo) == [k \in 1..(hi - lo + 1) |-> hi - k + 1]

Top(s) == s[Len(s)]
Pop(s) == SubSeq(s, 1, Len(s) - 1)

NoResult == [kind |-> "none"]
NotFound == [kind |-> "notfound"]
Raised == [kind |-> "raised"]
Found(q, c) == [kind |-> "found", quantities |-> q, cost |-> c]

----------------------------------------------------------------------------
(* Construction and configuration *)

Init ==
    /\ \/ /\ products \in Catalogs
          /\ min_total \in Totals
          /\ max_total \in Totals
       \/ /\ products = ExampleCatalog
          /\ min_total = ExampleInterval[1]
          /\ max_total = ExampleInterval[2]
    /\ constraints = <<>>
    /\ found_solutions = {}
    /\ stack = <<>>
    /\ pc = "configure"
    /\ result = NoResult
    /\ returned = <<>>
    /\ sessionStart = 0
    /\ exhausted = FALSE
    /\ inits = 0
    /\ changed = FALSE

\* self.constraints[product_index] = {"min": min_qty, "max": max_qty}
SetConstraintTo(product_index, min_qty, max_qty) ==
    [i \in (DOMAIN constraints) \cup {product_index} |->
        IF i = product_index THEN [min |-> min_qty, max |-> max_qty]
        ELSE constraints[i]]

SetConstraint ==
    /\ pc = "configure"
    /\ \E i \in Items, lo \in MinBounds, hi \in MaxBounds :
          constraints' = SetConstraintTo(i, lo, hi)
    /\ UNCHANGED <<products, min_total, max_total, found_solutions, stack,
                   pc, result, returned, sessionStart, exhausted, inits,
                   changed>>

SetConstraintsFromDict ==
    /\ pc = "configure"
    /\ \E d \in ConstraintDicts : constraints' = d
    /\ UNCHANGED <<products, min_total, max_total, found_solutions, stack,
                   pc, result, returned, sessionStart, exhausted, inits,
                   changed>>

----------------------------------------------------------------------------
(* initialize_search *)

InitialQuantities ==
    [i \in Items |-> IF i \in DOMAIN constraints THEN constraints[i].min
                     ELSE 0]

\* fault: the cost summed before the minimums are written into the vector
InitialCostBeforeMinimums == WeightedSum([i \in Items |-> 0])

InitialCost == WeightedSum(InitialQuantities)

InitialStack ==
    <<[idx |-> 0, quantities |-> InitialQuantities, cost |-> InitialCost]>>

DoInitializeSearch ==
    /\ stack' = InitialStack
    /\ pc' = "ready"
    /\ result' = NoResult
    /\ sessionStart' = Len(returned)
    /\ exhausted' = FALSE
    /\ inits' = inits + 1
    /\ changed' = FALSE
    /\ UNCHANGED <<products, min_total, max_total, constraints,
                   found_solutions, returned>>

InitializeSearch ==
    /\ pc = "configure"
    /\ DoInitializeSearch

----------------------------------------------------------------------------
(* find_next_solution, one iteration of `while self.stack` per step *)

\* fault: the lower end of the interval not tested at a leaf
InIntervalUpperOnly(current_cost) == current_cost <= max_total

InInterval(current_cost) ==
    min_total <= current_cost /\ current_cost <= max_total

ConstraintsHold(quantities) ==
    \A prod_idx \in DOMAIN constraints :
        /\ constraints[prod_idx].min <= quantities[prod_idx]
        /\ quantities[prod_idx] <= constraints[prod_idx].max

\* fault: the seen-set not consulted
IsNewSolutionAlways(solution_key) == TRUE

IsNewSolution(solution_key) == solution_key \notin found_solutions

\* fault: pruning with `new_cost < self.max_total`
SuccessorsStrictBudget(st, qtys, price, base) ==
    LET child(qty) ==
            [idx |-> st.idx + 1,
             quantities |-> [st.quantities EXCEPT ![st.idx] = qty],
             cost |-> st.cost + (qty - base) * price]
        all == [k \in 1..Len(qtys) |-> child(qtys[k])]
        WithinBudget(c) == c.cost < max_total
    IN SelectSeq(all, WithinBudget)

\* the successors a popped state pushes, in push order
Successors(st, qtys, price, base) ==
    LET child(qty) ==
            [idx |-> st.idx + 1,
             quantities |-> [st.quantities EXCEPT ![st.idx] = qty],
             cost |-> st.cost + (qty - base) * price]
        all == [k \in 1..Len(qtys) |-> child(qtys[k])]
        WithinBudget(c) == c.cost <= max_total
    IN SelectSeq(all, WithinBudget)

\* fault: the pre-applied minimum not subtracted,
\* new_cost = current_cost + qty * price
ConstrainedChoicesNoRebate(st) ==
    LET min_val == constraints[st.idx].min
        max_val == constraints[st.idx].max
    IN Successors(st, DescRange(max_val, min_val), products[st.idx], 0)

ConstrainedChoices(st) ==
    LET min_val == constraints[st.idx].min
        max_val == constraints[st.idx].max
    IN Successors(st, DescRange(max_val, min_val), products[st.idx],
                  st.quantities[st.idx])

UnconstrainedChoices(st) ==
    LET price == products[st.idx]
        max_qty == TruncDiv(max_total - st.cost, price)
    IN Successors(st, DescRange(max_qty, 0), price, 0)

\* `(self.max_total - current_cost) // price` raises for a zero price
BranchRaises(st) ==
    st.idx \notin DOMAIN constraints /\ products[st.idx] = 0

\* fault: a discarded leaf ends the call, `return False, None, None`
\* in place of `continue`
LeafOutcomeReturnsOnDiscard(st) ==
    IF /\ InInterval(st.cost)
       /\ ConstraintsHold(st.quantities)
       /\ IsNewSolution(st.quantities)
    THEN [stack |-> Pop(stack),
          found |-> found_solutions \cup {st.quantities},
          result |-> Found(st.quantities, st.cost),
          pc |-> "ready"]
    ELSE [stack |-> Pop(stack),
          found |-> found_solutions,
          result |-> NotFound,
          pc |-> "ready"]

\* fault: a discarded leaf is read with self.stack[-1] and left on the stack
LeafOutcomeKeepsDiscarded(st) ==
    IF /\ InInterval(st.cost)
       /\ ConstraintsHold(st.quantities)
       /\ IsNewSolution(st.quantities)
    THEN [stack |-> Pop(stack),
          found |-> found_solutions \cup {st.quantities},
          result |-> Found(st.quantities, st.cost),
          pc |-> "ready"]
    ELSE [stack |-> stack,
          found |-> found_solutions,
          result |-> result,
          pc |-> "loop"]

\* what popping a fully decided state does: [stack, found, result, pc]
LeafOutcome(st) ==
    IF /\ InInterval(st.cost)
       /\ ConstraintsHold(st.quantities)
       /\ IsNewSolution(st.quantities)
    THEN [stack |-> Pop(stack),
          found |-> found_solutions \cup {st.quantities},
          result |-> Found(st.quantities, st.cost),
          pc |-> "ready"]
    ELSE [stack |-> Pop(stack),
          found |-> found_solutions,
          result |-> result,
          pc |-> "loop"]

History ==
    /\ returned' = IF pc' = "ready" /\ result'.kind = "found"
                   THEN Append(returned, result'.quantities)
                   ELSE returned
    /\ exhausted' = (exhausted \/ (pc' = "ready" /\ result'.kind = "notfound"))
    /\ UNCHANGED <<sessionStart, inits, changed>>

FindNextCall ==
    /\ pc = "ready"
    /\ pc' = "loop"
    /\ result' = NoResult
    /\ UNCHANGED <<products, min_total, max_total, constraints,
                   found_solutions, stack, returned, sessionStart,
                   exhausted, inits, changed>>

LoopExit ==
    /\ pc = "loop"
    /\ stack = <<>>
    /\ result' = NotFound
    /\ pc' = "ready"
    /\ History
    /\ UNCHANGED <<products, min_total, max_total, constraints,
                   found_solutions, stack>>

LoopLeaf ==
    /\ pc = "loop"
    /\ stack # <<>>
    /\ Top(stack).idx = N
    /\ LET o == LeafOutcome(Top(stack))
       IN /\ stack' = o.stack
          /\ found_solutions' = o.found
          /\ result' = o.result
          /\ pc' = o.pc
    /\ History
    /\ UNCHANGED <<products, min_total, max_total, constraints>>

LoopBranch ==
    /\ pc = "loop"
    /\ stack # <<>>
    /\ Top(stack).idx # N
    /\ LET st == Top(stack)
       IN IF BranchRaises(st)
          THEN /\ stack' = Pop(stack)
               /\ result' = Raised
               /\ pc' = "crashed"
          ELSE /\ stack' = Pop(stack) \o
                           (IF st.idx \in DOMAIN constraints
                            THEN ConstrainedChoices(st)
                            ELSE UnconstrainedChoices(st))
               /\ result' = result
               /\ pc' = "loop"
    /\ History
    /\ UNCHANGED <<products, min_total, max_total, constraints,
                   found_solutions>>

FindNextSolution == FindNextCall \/ LoopExit \/ LoopLeaf \/ LoopBranch

----------------------------------------------------------------------------
(* The session lifecycle: configure, initialize once, then find next *)

Next ==
    \/ SetConstraint
    \/ SetConstraintsFromDict
    \/ InitializeSearch
    \/ FindNextCall
    \/ LoopExit
    \/ LoopLeaf
    \/ LoopBranch

Spec == Init /\ [][Next]_vars

----------------------------------------------------------------------------
(* The class itself does not enforce the lifecycle: its methods can be     *)
(* called on a session that is already initialized, between two            *)
(* find_next_solution calls.  SpecReinit adds initialize_search called     *)
(* again; SpecLate adds one change of the constraint table after           *)
(* initialize_search.  Both explore the interval [1, MaxTotal].             *)

LateSetConstraint ==
    /\ pc = "ready"
    /\ ~changed
    /\ \E i \in Items, lo \in MinBounds, hi \in MaxBounds :
          constraints' = SetConstraintTo(i, lo, hi)
    /\ changed' = TRUE
    /\ UNCHANGED <<products, min_total, max_total, found_solutions, stack,
                   pc, result, returned, sessionStart, exhausted, inits>>

LateSetConstraintsFromDict ==
    /\ pc = "ready"
    /\ ~changed
    /\ \E d \in ConstraintDicts : constraints' = d
    /\ changed' = TRUE
    /\ UNCHANGED <<products, min_total, max_total, found_solutions, stack,
                   pc, result, returned, sessionStart, exhausted, inits>>

Reinitialize ==
    /\ pc = "ready"
    /\ inits < MaxInits
    /\ DoInitializeSearch

InitApi ==
    /\ Init
    /\ products \in Catalogs
    /\ min_total = 1
    /\ max_total = MaxTotal

NextReinit ==
    \/ SetConstraint
    \/ SetConstraintsFromDict
    \/ InitializeSearch
    \/ FindNextCall
    \/ LoopExit
    \/ LoopLeaf
    \/ LoopBranch
    \/ Reinitialize

SpecReinit == InitApi /\ [][NextReinit]_vars

NextLate ==
    \/ SetConstraint
    \/ SetConstraintsFromDict
    \/ InitializeSearch
    \/ FindNextCall
    \/ LoopExit
    \/ LoopLeaf
    \/ LoopBranch
    \/ LateSetConstraint
    \/ LateSetConstraintsFromDict

SpecLate == InitApi /\ [][NextLate]_vars

----------------------------------------------------------------------------
(* The run of main: the finder is constructed and its whole table          *)
(* installed, then initialize_search, then find_next_solution in a loop.   *)
(* The program is sequential and deterministic, so every step that is      *)
(* enabled is eventually taken.                                            *)

InitConfigured ==
    /\ \/ /\ products \in Catalogs
          /\ min_total \in Totals
          /\ max_total \in Totals
       \/ /\ products = ExampleCatalog
          /\ min_total = ExampleInterval[1]
          /\ max_total = ExampleInterval[2]
    /\ constraints \in ConstraintDicts
    /\ found_solutions = {}
    /\ stack = <<>>
    /\ pc = "configure"
    /\ result = NoResult
    /\ returned = <<>>
    /\ sessionStart = 0
    /\ exhausted = FALSE
    /\ inits = 0
    /\ changed = FALSE

NextSearch ==
    \/ InitializeSearch
    \/ FindNextCall
    \/ LoopExit
    \/ LoopLeaf
    \/ LoopBranch

FairSpec ==
    /\ InitConfigured
    /\ [][NextSearch]_vars
    /\ WF_vars(InitializeSearch)
    /\ WF_vars(FindNextCall)
    /\ WF_vars(LoopExit)
    /\ WF_vars(LoopLeaf)
    /\ WF_vars(LoopBranch)

----------------------------------------------------------------------------
(* Vocabulary of the properties, stated without the engine's operators *)

SessionReturned == SubSeq(returned, sessionStart + 1, Len(returned))

ToSet(s) == {s[k] : k \in 1..Len(s)}

RECURSIVE ExactCostFrom(_, _)
\* the exact weighted cost of the entries of q at the indices >= i
ExactCostFrom(q, i) ==
    IF i >= N THEN 0 ELSE q[i] * products[i] + ExactCostFrom(q, i + 1)

ExactCost(q) == ExactCostFrom(q, 0)

Feasible(q) ==
    /\ min_total <= ExactCost(q)
    /\ ExactCost(q) <= max_total
    /\ \A i \in DOMAIN constraints :
          constraints[i].min <= q[i] /\ q[i] <= constraints[i].max

PositivePrices == \A i \in Items : products[i] > 0

ValidConstraints ==
    \A i \in DOMAIN constraints :
        0 <= constraints[i].min /\ constraints[i].min <= constraints[i].max

ValidConfig == PositivePrices /\ ValidConstraints /\ min_total <= max_total

InvalidConfig ==
    \/ min_total > max_total
    \/ \E i \in DOMAIN constraints :
          \/ constraints[i].min > constraints[i].max
          \/ constraints[i].min < 0
          \/ constraints[i].max < 0

\* every non-negative quantity vector that can cost at most max_total when
\* prices are positive integers has all its entries in 0..max_total
BruteForce == {q \in [Items -> 0..max_total] : Feasible(q)}

\* the minimum initialize_search pre-applies to item i
PreApplied(i) == IF i \in DOMAIN constraints THEN constraints[i].min ELSE 0

\* a and b differ and a has the smaller entry at the first index where
\* they differ
LexLess(a, b) ==
    \E i \in Items :
        /\ a[i] < b[i]
        /\ \A j \in 0..(i - 1) : a[j] = b[j]

----------------------------------------------------------------------------
(* Properties *)

\* C1 (completeness): in a valid configuration (positive prices, 0 <= min
\* <= max for every constrained item, min_total <= max_total), when the
\* session reports found=False the set of vectors it returned is exactly the
\* brute-force set of feasible non-negative quantity vectors.
Completeness ==
    (exhausted /\ ValidConfig) => ToSet(SessionReturned) = BruteForce

CompletenessWitness ==
    /\ exhausted
    /\ ValidConfig
    /\ N = 2
    /\ DOMAIN constraints = {1}
    /\ constraints[1].min >= 1
    /\ Cardinality(BruteForce) >= 2
    /\ \E q \in BruteForce : ExactCost(q) = max_total

\* C2 (feasibility): a result returned with found=True has a cost, both as
\* returned and as recomputed from its quantities, inside [min_total,
\* max_total], and every constrained item's quantity inside its [min, max].
Feasibility ==
    result.kind = "found" =>
        /\ Feasible(result.quantities)
        /\ min_total <= result.cost
        /\ result.cost <= max_total

FeasibilityWitness ==
    /\ result.kind = "found"
    /\ pc = "ready"
    /\ min_total >= 2
    /\ N = 2
    /\ DOMAIN constraints # {}

\* C3 (no duplicates): no quantity vector is returned with found=True twice
\* by one finder, neither within a session nor after initialize_search is
\* called again.
NoDuplicates ==
    \A i, j \in 1..Len(returned) : i < j => returned[i] # returned[j]

\* a second search has run to exhaustion over a tree that still holds a
\* vector the first one returned
NoDuplicatesWitness ==
    /\ inits = 2
    /\ exhausted
    /\ ~changed
    /\ ValidConfig
    /\ \E k \in 1..sessionStart : Feasible(returned[k])
    /\ Len(returned) > sessionStart

\* C4 (monotone exhaustion): once found=False has been returned in a
\* session, no call returns anything but found=False.
MonotoneExhaustion ==
    [][exhausted =>
          /\ result'.kind \in {"none", "notfound"}
          /\ (pc' = "ready" => result'.kind = "notfound")]_vars

MonotoneExhaustionWitness ==
    /\ exhausted
    /\ pc = "loop"
    /\ Len(SessionReturned) >= 2

\* C5 (termination): with strictly positive prices every call returns and
\* the session reaches found=False; the catalog [A at 24.12] with interval
\* [24.12, 48.24] and no constraint returns q0=1, q0=2 and then found=False.
Termination ==
    /\ PositivePrices => <>exhausted
    /\ PositivePrices => [](pc = "loop" => <>(pc = "ready"))
    /\ [](/\ products = ExampleCatalog
          /\ constraints = <<>>
          /\ exhausted
          => returned = <<(0 :> 1), (0 :> 2)>>)

TerminationWitness ==
    /\ exhausted
    /\ pc = "ready"
    /\ products = ExampleCatalog
    /\ constraints = <<>>
    /\ Len(returned) = 2

\* C6 (configuration errors): in a configuration with min > max, a negative
\* bound or min_total > max_total, the search is never begun.
ConfigErrorsRejected == InvalidConfig => pc = "configure"

\* C7 (zero price): branching on an unconstrained item priced 0 does not
\* fail.
ZeroPriceNoFailure == result.kind # "raised"

\* C8 as stated (highest first): of two solutions returned in one session
\* the earlier has the larger quantity at the first index where they differ.
DiscoveryOrderHighFirst ==
    \A i, j \in 1..Len(SessionReturned) :
        i < j => LexLess(SessionReturned[j], SessionReturned[i])

\* C8 as amended (lowest first): of two solutions returned in one session
\* the earlier has the smaller quantity at the first index where they
\* differ.
DiscoveryOrderLowFirst ==
    \A i, j \in 1..Len(SessionReturned) :
        i < j => LexLess(SessionReturned[i], SessionReturned[j])

DiscoveryOrderWitness ==
    /\ N = 2
    /\ \E i, j \in 1..Len(SessionReturned) :
          /\ i < j
          /\ SessionReturned[i][0] < SessionReturned[j][0]
          /\ SessionReturned[i][1] > SessionReturned[j][1]
    /\ \E i, j \in 1..Len(SessionReturned) :
          /\ i < j
          /\ SessionReturned[i][0] = SessionReturned[j][0]

\* C9 as stated: in every candidate state on the stack the entries at
\* indices >= next_item_index are zero and running_cost is the weighted sum
\* of the entries below next_item_index only.
CandidateStateUndecidedZero ==
    \A k \in 1..Len(stack) :
        /\ \A i \in Items : i >= stack[k].idx => stack[k].quantities[i] = 0
        /\ stack[k].cost =
              ExactCost(stack[k].quantities)
                  - ExactCostFrom(stack[k].quantities, stack[k].idx)

\* C9 as amended: in every candidate state on the stack the entries at
\* indices >= next_item_index hold the minimum initialize_search pre-applied
\* (zero for an unconstrained item) and running_cost is the weighted sum of
\* the entries below next_item_index plus the cost of those minimums.
CandidateStatePreApplied ==
    \A k \in 1..Len(stack) :
        /\ \A i \in Items :
              i >= stack[k].idx => stack[k].quantities[i] = PreApplied(i)
        /\ stack[k].cost =
              ExactCost(stack[k].quantities)
                  - ExactCostFrom(stack[k].quantities, stack[k].idx)
                  + ExactCostFrom([i \in Items |-> PreApplied(i)],
                                  stack[k].idx)

CandidateStateWitness ==
    \E k \in 1..Len(stack) :
        /\ stack[k].idx = 1
        /\ stack[k].quantities[0] >= 1
        /\ 1 \in DOMAIN constraints
        /\ constraints[1].min >= 1
        /\ products[0] > 0
        /\ products[1] > 0

\* C10 (cost consistency): while the constraint table has not been changed
\* since initialize_search, the cost of every candidate state on the stack
\* and of the returned solution is the weighted sum over all items of its
\* own quantity vector.
CostConsistency ==
    ~changed =>
        /\ \A k \in 1..Len(stack) :
              stack[k].cost = ExactCost(stack[k].quantities)
        /\ result.kind = "found" =>
              result.cost = ExactCost(result.quantities)

CostConsistencyWitness ==
    /\ ~changed
    /\ result.kind = "found"
    /\ N = 2
    /\ \E i \in DOMAIN constraints :
          /\ constraints[i].min >= 1
          /\ result.quantities[i] > constraints[i].min

====
